---------------------------- MODULE Spec2Model ----------------------------
(***************************************************************************)
(* Model of etl/sources/snapshot.py: the three provider adapters and       *)
(* fetch_snapshot, the routine that merges their results into one          *)
(* CompanySnapshot mapping.                                                *)
(*                                                                         *)
(* Python values are records [tag, num, den]:                              *)
(*   None            tag "None"                                            *)
(*   int n           tag "int",   num = n                                  *)
(*   float n/d       tag "float", num/den in lowest terms, den > 0         *)
(*                   (the exact quotient; binary rounding is not modelled) *)
(*   float NaN       tag "nan"                                             *)
(*   datetime.date   tag "date",  num = the day                            *)
(*   a raised exception travels as tag "raise:<ExceptionName>"             *)
(* A value handed around as "a mapping" is a record [type, items]: type is *)
(* the Python type of the object and items its key/value pairs when it is  *)
(* a dict.                                                                 *)
(***************************************************************************)
EXTENDS Integers, Sequences, FiniteSets, TLC

VARIABLES
    FINNHUB_KEY,   \* module constant, line 28
    FMP_KEY,       \* module constant, line 31
    pc,            \* position inside fetch_snapshot
    focus,         \* field group the providers hold data for in this call
    http_finnhub,  \* what requests.get did for the Finnhub call
    http_km,       \* what requests.get did for the FMP key-metrics call
    http_bs,       \* what requests.get did for the FMP balance-sheet call
    yf_in,         \* what yfinance held for the ticker
    finnhub,       \* local of fetch_snapshot, line 117
    yfin,          \* local of fetch_snapshot, line 118
    fmp_km,        \* local of fetch_snapshot, line 119
    fmp_bs,        \* local of fetch_snapshot, line 120
    result         \* what fetch_snapshot returned or raised

vars == <<FINNHUB_KEY, FMP_KEY, pc, focus, http_finnhub, http_km, http_bs,
          yf_in, finnhub, yfin, fmp_km, fmp_bs, result>>

---------------------------------------------------------------------------
\* Bounds of the enumerated provider data.

\* generic numeric raw values are 0..MaxNum
MaxNum == 2

\* a yfinance balance sheet holds at most MaxRows of the labels the code reads
MaxRows == 2

---------------------------------------------------------------------------
\* Python values.

None == [tag |-> "None", num |-> 0, den |-> 1]

Int_(n) == [tag |-> "int", num |-> n, den |-> 1]

NaN == [tag |-> "nan", num |-> 0, den |-> 1]

Date(d) == [tag |-> "date", num |-> d, den |-> 1]

Raise(e) == [tag |-> "raise:" \o e, num |-> 0, den |-> 1]

IsRaise(v) == v.tag \in {"raise:ZeroDivisionError", "raise:AttributeError",
                         "raise:ValueError", "raise:TypeError"}

IsNumber(v) == v.tag \in {"int", "float"}

Abs(n) == IF n < 0 THEN -n ELSE n

RECURSIVE Gcd(_, _)
Gcd(a, b) == IF b = 0 THEN a ELSE Gcd(b, a % b)

\* the float n/d, d # 0
Float(n, d) ==
    LET g == Gcd(Abs(n), Abs(d))
        s == IF d < 0 THEN -1 ELSE 1
    IN  [tag |-> "float", num |-> (s * n) \div g, den |-> (s * d) \div g]

\* bool(v): None and numeric zero are falsy, everything else is truthy
Truthy(v) == ~(v.tag = "None") /\ ~(IsNumber(v) /\ v.num = 0)

\* x + y on numbers; an int when both are ints
Add(x, y) ==
    IF x.tag = "int" /\ y.tag = "int" THEN Int_(x.num + y.num)
    ELSE Float(x.num * y.den + y.num * x.den, x.den * y.den)

\* x - y on numbers; an int when both are ints
Sub(x, y) ==
    IF x.tag = "int" /\ y.tag = "int" THEN Int_(x.num - y.num)
    ELSE Float(x.num * y.den - y.num * x.den, x.den * y.den)

\* x / y, Python true division: always a float, ZeroDivisionError on y = 0
TrueDiv(x, y) ==
    IF y.num = 0 THEN Raise("ZeroDivisionError")
    ELSE Float(x.num * y.den, x.den * y.num)

\* x > 0 on a number
GtZero(x) == x.num > 0

---------------------------------------------------------------------------
\* Objects the adapters hand to fetch_snapshot.

EmptyItems == [k \in {} |-> None]

Dict(items) == [type |-> "dict", items |-> items]

EmptyDict == Dict(EmptyItems)

\* a value that is no dict: None, a number, a list
NonDict(t) == [type |-> t, items |-> EmptyItems]

NotCalled == NonDict("unset")

\* m.get(k): None when the key is missing, AttributeError when m is no dict
Get(m, k) ==
    IF m.type # "dict" THEN Raise("AttributeError")
    ELSE IF k \in DOMAIN m.items THEN m.items[k] ELSE None

\* a or b, where a has been evaluated and b is evaluated only when a is falsy
Or(a, b) == IF IsRaise(a) \/ Truthy(a) THEN a ELSE b

\* a and b, where b is evaluated only when a is truthy
And(a, b) == IF IsRaise(a) \/ ~Truthy(a) THEN a ELSE b

---------------------------------------------------------------------------
\* fetch_snapshot, lines 122-205: the merge of the four adapter results.

\* mutant: .get("marketCapTTM", 0), a default of 0 for a missing field
market_cap_default_zero(a, c) ==
    Or(Get(a, "marketCapitalization"),
       IF c.type = "dict" /\ "marketCapTTM" \notin DOMAIN c.items
       THEN Int_(0) ELSE Get(c, "marketCapTTM"))

market_cap(a, c) == Or(Get(a, "marketCapitalization"), Get(c, "marketCapTTM"))

pe_ttm(a, c) == Or(Get(a, "peTTM"), Get(c, "peRatioTTM"))

earnings_yoy(a, c) ==
    Or(Get(a, "epsGrowthQuarterlyYoy"), Get(c, "epsGrowthQuarterlyYoy"))

revenue_yoy(a, c) ==
    Or(Get(a, "revenueGrowthQuarterlyYoy"), Get(c, "revenueGrowthQuarterlyYOY"))

\* lines 131-134
pe_fwd_supplied(a, c) == Or(Get(a, "forwardPE"), Get(c, "forwardPE"))

\* mutant: the estimate is made for every nonzero earnings_yoy
pe_fwd_estimated_nonzero(fwd, ttm, yoy) ==
    fwd.tag = "None" /\ ttm.tag # "None" /\ yoy.tag # "None" /\ yoy.num # 0

\* line 137: the condition under which the estimate replaces pe_fwd
pe_fwd_estimated(fwd, ttm, yoy) ==
    fwd.tag = "None" /\ ttm.tag # "None" /\ yoy.tag # "None" /\ GtZero(yoy)

\* lines 139-140
pe_fwd_estimate(ttm, yoy) ==
    LET estimated_growth == Add(Int_(1), TrueDiv(yoy, Int_(100)))
    IN  TrueDiv(ttm, estimated_growth)

\* lines 131-140
pe_fwd(a, c) ==
    LET fwd == pe_fwd_supplied(a, c)
        ttm == pe_ttm(a, c)
        yoy == earnings_yoy(a, c)
    IN  IF IsRaise(fwd) \/ IsRaise(ttm) \/ IsRaise(yoy) THEN fwd
        ELSE IF pe_fwd_estimated(fwd, ttm, yoy) THEN pe_fwd_estimate(ttm, yoy)
        ELSE fwd

price_to_sales(a, c) == Or(Get(a, "psTTM"), Get(c, "priceToSalesRatioTTM"))

\* lines 148 and 150
enterprise_value(a, c) ==
    Or(Get(a, "enterpriseValue"), Get(c, "enterpriseValueTTM"))

\* lines 149 and 151
ebitda(a, c) == Or(Get(a, "ebitdaTTM"), Get(c, "ebitdaTTM"))

\* lines 147-152: ev and eb and ev / eb
ev_over_ebitda(ev, eb) == And(And(ev, eb), TrueDiv(ev, eb))

\* lines 145-153
ev_to_ebitda(a, c) ==
    Or(Get(c, "enterpriseValueOverEBITDATTM"),
       ev_over_ebitda(enterprise_value(a, c), ebitda(a, c)))

\* lines 156-161
price_to_book(a, c) ==
    Or(Or(Or(Get(a, "pbTTM"), Get(c, "priceToBookRatioTTM")),
          Get(c, "pbRatioTTM")),
       Get(c, "ptbRatioTTM"))

fcf_yield(a, c) ==
    Or(Get(a, "currentEv/freeCashFlowTTM"), Get(c, "freeCashFlowYieldTTM"))

profit_margin(a, c) ==
    Or(Get(a, "netProfitMarginTTM"), Get(c, "netProfitMarginTTM"))

operating_margin_ttm(a, c) ==
    Or(Get(a, "operatingMarginTTM"), Get(c, "operatingMarginTTM"))

\* line 174; yfin always carries the key
cash(y, b) == Or(y.items["cash"], Get(b, "cashAndCashEquivalents"))

\* line 175
debt(y, b) == Or(y.items["debt"], Get(b, "totalDebt"))

\* mutant: cash - debt replaces the adapter's net_cash whenever it can be
\* computed
net_cash_recomputed(y, b) ==
    LET ca == cash(y, b)
        de == debt(y, b)
    IN  IF ca.tag # "None" /\ de.tag # "None"
        THEN Sub(ca, de) ELSE y.items["net_cash"]

\* lines 176-178
net_cash(y, b) ==
    LET n == y.items["net_cash"]
        ca == cash(y, b)
        de == debt(y, b)
    IN  IF n.tag = "None" /\ (ca.tag # "None" /\ de.tag # "None")
        THEN Sub(ca, de) ELSE n

dividend_yield(a, c) ==
    Or(Get(a, "dividendYieldIndicatedAnnual"), Get(c, "dividendYieldTTM"))

payout_ratio(a, c) == Or(Get(a, "payoutRatioTTM"), Get(c, "payoutRatioTTM"))

ex_div_date(y) == y.items["ex_div_date"]

payout_date(y) == y.items["payout_date"]

\* the keys of the returned dict, lines 186-205
Fields == {"market_cap", "pe_ttm", "pe_fwd", "price_to_sales", "ev_to_ebitda",
           "price_to_book", "fcf_yield", "profit_margin",
           "operating_margin_ttm", "earnings_yoy", "revenue_yoy", "cash",
           "debt", "net_cash", "dividend_yield", "payout_ratio",
           "ex_div_date", "payout_date"}

\* the statements of lines 123-184 in the order they are executed
Statements(a, y, c, b) ==
    << <<"market_cap", market_cap(a, c)>>,
       <<"pe_ttm", pe_ttm(a, c)>>,
       <<"earnings_yoy", earnings_yoy(a, c)>>,
       <<"revenue_yoy", revenue_yoy(a, c)>>,
       <<"pe_fwd", pe_fwd(a, c)>>,
       <<"price_to_sales", price_to_sales(a, c)>>,
       <<"ev_to_ebitda", ev_to_ebitda(a, c)>>,
       <<"price_to_book", price_to_book(a, c)>>,
       <<"fcf_yield", fcf_yield(a, c)>>,
       <<"profit_margin", profit_margin(a, c)>>,
       <<"operating_margin_ttm", operating_margin_ttm(a, c)>>,
       <<"cash", cash(y, b)>>,
       <<"debt", debt(y, b)>>,
       <<"net_cash", net_cash(y, b)>>,
       <<"dividend_yield", dividend_yield(a, c)>>,
       <<"payout_ratio", payout_ratio(a, c)>>,
       <<"ex_div_date", ex_div_date(y)>>,
       <<"payout_date", payout_date(y)>> >>

NullSnapshot == [f \in Fields |-> None]

NoResult == [exc |-> "unset", snap |-> NullSnapshot]

\* the first statement that raises ends the call with its exception;
\* otherwise the dict of lines 186-205 is returned
merge(a, y, c, b) ==
    LET st == Statements(a, y, c, b)
        bad == {i \in 1..Len(st) : IsRaise(st[i][2])}
        first == CHOOSE i \in bad : \A j \in bad : i <= j
    IN  IF bad # {}
        THEN [exc |-> st[first][2].tag, snap |-> NullSnapshot]
        ELSE [exc |-> "none",
              snap |-> [f \in Fields |->
                          LET i == CHOOSE j \in 1..Len(st) : st[j][1] = f
                          IN  st[i][2]]]

---------------------------------------------------------------------------
\* The HTTP adapters, lines 38-77.
\*
\* What requests.get did is a record [error, status, body]: error names the
\* exception requests.get raised ("none" when it returned), status is the
\* HTTP status, body the decoded JSON as [shape, members]: shape "invalid"
\* (r.json() raises), "null", "number", "list" or "dict"; members the
\* elements of a list (a sequence) or the entries of a dict.

NoMembers == << >>

Body(shape, members) == [shape |-> shape, members |-> members]

Response(error, status, body) ==
    [error |-> error, status |-> status, body |-> body]

\* no request is made
NoRequest == Response("not requested", 0, Body("null", NoMembers))

\* the value of data in _fmp_endpoint when it returns None
PyNone == Body("null", NoMembers)

\* not KEY: None and the empty string are falsy
KeySet(key) == key # "<None>" /\ key # ""

\* r.raise_for_status() raises on 4xx and 5xx
StatusRaises(status) == status >= 400 /\ status < 600

\* lines 41-51: the try block; any exception gives {}
finnhub_try(http) ==
    IF http.error # "none" THEN EmptyDict
    ELSE IF StatusRaises(http.status) THEN EmptyDict
    ELSE IF http.body.shape = "invalid" THEN EmptyDict
    ELSE IF http.body.shape # "dict" THEN EmptyDict   \* .get: AttributeError
    ELSE IF "metric" \in DOMAIN http.body.members
         THEN http.body.members["metric"]
         ELSE EmptyDict

\* _finnhub_metric, lines 38-51
finnhub_metric(key, http) ==
    IF ~KeySet(key) THEN EmptyDict ELSE finnhub_try(http)

\* _fmp_endpoint, lines 54-67: the decoded body, or None
fmp_endpoint(key, http) ==
    IF ~KeySet(key) THEN PyNone
    ELSE IF http.error # "none" THEN PyNone
    ELSE IF StatusRaises(http.status) THEN PyNone
    ELSE IF http.body.shape = "invalid" THEN PyNone
    ELSE http.body

\* data[0] if isinstance(data, list) and data else {}, lines 72 and 77
first_or_empty(data) ==
    IF data.shape = "list" /\ Len(data.members) > 0
    THEN data.members[1] ELSE EmptyDict

\* _fmp_key_metrics, lines 70-72
fmp_key_metrics(key, http) == first_or_empty(fmp_endpoint(key, http))

\* _fmp_balance_sheet, lines 75-77
fmp_balance_sheet(key, http) == first_or_empty(fmp_endpoint(key, http))

---------------------------------------------------------------------------
\* The yfinance adapter, lines 80-110.
\*
\* What yfinance holds is a record [bs_exc, bs, div_exc, divs]: bs_exc /
\* div_exc tell whether reading .balance_sheet / .dividends raises; bs is
\* the balance sheet as a function from row label to the cell of the most
\* recent period (no rows: bs.empty); divs is the index of the dividend
\* series, each entry either a timestamp [has_date |-> TRUE, day] or an
\* index value without a date() method.

CashLabels == <<"Cash And Cash Equivalents", "Total Cash", "Cash">>

DebtLabels == <<"Long Term Debt", "Total Debt">>

YfRes(ca, de, nc, ex, pay) ==
    Dict([k \in {"cash", "debt", "net_cash", "ex_div_date", "payout_date"} |->
            CASE k = "cash" -> ca
              [] k = "debt" -> de
              [] k = "net_cash" -> nc
              [] k = "ex_div_date" -> ex
              [] k = "payout_date" -> pay])

\* int(x): truncation toward zero; ValueError on NaN
int(x) ==
    IF x.tag = "nan" THEN Raise("ValueError")
    ELSE IF x.num >= 0 THEN Int_(x.num \div x.den)
    ELSE Int_(-((-x.num) \div x.den))

\* the for loops of lines 92-95 and 96-99: the first label of the list that
\* is a row of bs, converted; None when no label is a row
first_label(labels, bs) ==
    LET hit == {i \in 1..Len(labels) : labels[i] \in DOMAIN bs}
        i == CHOOSE j \in hit : \A k \in hit : j <= k
    IN  IF hit = {} THEN None ELSE int(bs[labels[i]])

\* lines 104-107
dividend_date(divs) ==
    IF Len(divs) = 0 THEN None
    ELSE LET ex == divs[Len(divs)]
         IN  IF ex.has_date THEN Date(ex.day) ELSE None

\* _yfinance_balance_dividend, lines 80-110: res as it stands when the try
\* block ends, normally or in the except clause
yfinance_balance_dividend(yf) ==
    LET c0 == IF DOMAIN yf.bs = {} THEN None ELSE first_label(CashLabels, yf.bs)
        d0 == IF DOMAIN yf.bs = {} THEN None ELSE first_label(DebtLabels, yf.bs)
        nc == IF c0.tag # "None" /\ d0.tag # "None" THEN Sub(c0, d0) ELSE None
        dd == dividend_date(yf.divs)
    IN  IF yf.bs_exc THEN YfRes(None, None, None, None, None)
        ELSE IF IsRaise(c0) THEN YfRes(None, None, None, None, None)
        ELSE IF IsRaise(d0) THEN YfRes(c0, None, None, None, None)
        ELSE IF yf.div_exc THEN YfRes(c0, d0, nc, None, None)
        ELSE YfRes(c0, d0, nc, dd, dd)

---------------------------------------------------------------------------
\* The provider data enumerated for a call. Each call exercises one group of
\* output fields (its focus): the providers hold raw fields of that group
\* only, every other raw field is missing from every provider.

SimpleFocuses == {"market_cap", "revenue_yoy", "price_to_sales", "fcf_yield",
                  "profit_margin", "operating_margin_ttm", "dividend_yield",
                  "payout_ratio"}

Focuses == SimpleFocuses \cup {"pe", "ev", "pb", "balance", "yfinance", "http"}

\* the Finnhub raw field of a two-source field
FinnhubKey(f) ==
    CASE f = "market_cap" -> "marketCapitalization"
      [] f = "revenue_yoy" -> "revenueGrowthQuarterlyYoy"
      [] f = "price_to_sales" -> "psTTM"
      [] f = "fcf_yield" -> "currentEv/freeCashFlowTTM"
      [] f = "profit_margin" -> "netProfitMarginTTM"
      [] f = "operating_margin_ttm" -> "operatingMarginTTM"
      [] f = "dividend_yield" -> "dividendYieldIndicatedAnnual"
      [] f = "payout_ratio" -> "payoutRatioTTM"

\* the FMP key-metrics raw field of a two-source field
FmpKey(f) ==
    CASE f = "market_cap" -> "marketCapTTM"
      [] f = "revenue_yoy" -> "revenueGrowthQuarterlyYOY"
      [] f = "price_to_sales" -> "priceToSalesRatioTTM"
      [] f = "fcf_yield" -> "freeCashFlowYieldTTM"
      [] f = "profit_margin" -> "netProfitMarginTTM"
      [] f = "operating_margin_ttm" -> "operatingMarginTTM"
      [] f = "dividend_yield" -> "dividendYieldTTM"
      [] f = "payout_ratio" -> "payoutRatioTTM"

Nums == {Int_(n) : n \in 0..MaxNum}

FinnhubKeys(f) ==
    CASE f \in SimpleFocuses -> {FinnhubKey(f)}
      [] f = "pe" -> {"peTTM", "epsGrowthQuarterlyYoy", "forwardPE"}
      [] f = "ev" -> {"enterpriseValue", "ebitdaTTM"}
      [] f = "pb" -> {"pbTTM"}
      [] f = "http" -> {"marketCapitalization"}
      [] OTHER -> {}

FmpKmKeys(f) ==
    CASE f \in SimpleFocuses -> {FmpKey(f)}
      [] f = "pe" -> {"peRatioTTM", "epsGrowthQuarterlyYoy", "forwardPE"}
      [] f = "ev" -> {"enterpriseValueOverEBITDATTM", "enterpriseValueTTM",
                      "ebitdaTTM"}
      [] f = "pb" -> {"priceToBookRatioTTM", "pbRatioTTM", "ptbRatioTTM"}
      [] f = "http" -> {"marketCapTTM"}
      [] OTHER -> {}

FmpBsKeys(f) ==
    CASE f = "balance" -> {"cashAndCashEquivalents", "totalDebt"}
      [] f = "http" -> {"cashAndCashEquivalents"}
      [] OTHER -> {}

\* the non-null values a raw field takes
RawVals(f, k) ==
    CASE f = "http" -> {Int_(1)}
      [] k = "epsGrowthQuarterlyYoy" ->
            {Int_(-150), Int_(-100), Int_(-25), Int_(0), Int_(25)}
      [] k = "peTTM" -> {Int_(0), Float(37, 2)}
      [] k = "peRatioTTM" -> {Int_(0), Int_(20)}
      [] k = "forwardPE" -> {Int_(0), Int_(15)}
      [] k = "enterpriseValue" -> {Int_(0), Int_(100)}
      [] k = "enterpriseValueTTM" -> {Int_(0), Int_(90)}
      [] k = "ebitdaTTM" -> {Int_(0), Int_(4), Int_(-4)}
      [] k = "enterpriseValueOverEBITDATTM" -> {Int_(0), Int_(7)}
      [] OTHER -> Nums

AllRawVals(f, keys) == UNION {RawVals(f, k) : k \in keys} \cup {None}

\* the dicts over a set of raw fields: each field missing, null or a number
Maps(f, keys) ==
    UNION {{m \in [S -> AllRawVals(f, keys)] :
              \A k \in S : m[k] \in RawVals(f, k) \cup {None}} :
           S \in SUBSET keys}

Ok(body) == Response("none", 200, body)

\* the calls that fail, and the bodies that are not of the expected shape
FailedResponses ==
    {Response("ConnectionError", 0, Body("null", NoMembers)),
     Response("Timeout", 0, Body("null", NoMembers)),
     Response("none", 404, Body("dict", NoMembers)),
     Response("none", 500, Body("invalid", NoMembers)),
     Ok(Body("invalid", NoMembers)),
     Ok(Body("null", NoMembers)),
     Ok(Body("number", NoMembers))}

\* JSON values that are no mapping: null, a number, a list
NonDicts == {NonDict("NoneType"), NonDict("int"), NonDict("list")}

FinnhubResponses(f) ==
    {Ok(Body("dict", [k \in {"metric"} |-> Dict(m)])) :
        m \in Maps(f, FinnhubKeys(f))}
    \cup IF f # "http" THEN {}
         ELSE FailedResponses
              \cup {Ok(Body("list", NoMembers)), Ok(Body("dict", NoMembers))}
              \cup {Ok(Body("dict", [k \in {"metric"} |-> v])) : v \in NonDicts}

FmpResponses(f, keys) ==
    {Ok(Body("list", <<Dict(m)>>)) : m \in Maps(f, keys)}
    \cup IF f # "http" THEN {}
         ELSE FailedResponses
              \cup {Ok(Body("list", NoMembers)), Ok(Body("dict", NoMembers))}
              \cup {Ok(Body("list", <<v>>)) : v \in NonDicts}

Yf(bs_exc, bs, div_exc, divs) ==
    [bs_exc |-> bs_exc, bs |-> bs, div_exc |-> div_exc, divs |-> divs]

NoRows == [k \in {} |-> None]

Timestamp(d) == [has_date |-> TRUE, day |-> d]

PlainIndex == [has_date |-> FALSE, day |-> 0]

Labels == {CashLabels[i] : i \in 1..Len(CashLabels)}
          \cup {DebtLabels[i] : i \in 1..Len(DebtLabels)}

\* cells of a balance sheet: whole amounts, a fractional amount, NaN
Cells == Nums \cup {Float(5, 2), NaN}

Tables(labels, cells) ==
    UNION {[S -> cells] : S \in {T \in SUBSET labels : Cardinality(T) <= MaxRows}}

DivIndexes == {<< >>, <<Timestamp(1)>>, <<PlainIndex>>,
               <<Timestamp(1), Timestamp(2)>>, <<Timestamp(1), PlainIndex>>}

YfInputs(f) ==
    CASE f = "yfinance" ->
            {Yf(FALSE, t, FALSE, d) : t \in Tables(Labels, Cells), d \in DivIndexes}
            \cup {Yf(TRUE, NoRows, FALSE, << >>)}
            \cup {Yf(FALSE, t, TRUE, << >>) : t \in Tables(Labels, Cells)}
      [] f = "balance" ->
            {Yf(FALSE, t, FALSE, << >>) :
                t \in Tables({CashLabels[1], DebtLabels[1]}, Nums)}
      [] f = "http" ->
            {Yf(FALSE, NoRows, FALSE, << >>),
             Yf(FALSE, [k \in {CashLabels[1], DebtLabels[1]} |-> Int_(1)],
                FALSE, << >>)}
      [] OTHER -> {Yf(FALSE, NoRows, FALSE, << >>)}

Keys == {"<None>", "", "token"}

---------------------------------------------------------------------------
\* The state machine: calls of fetch_snapshot, one after the other.

NoYf == Yf(FALSE, NoRows, FALSE, << >>)

Init ==
    /\ FINNHUB_KEY \in Keys
    /\ FMP_KEY \in Keys
    /\ pc = "idle"
    /\ focus = "none"
    /\ http_finnhub = NoRequest
    /\ http_km = NoRequest
    /\ http_bs = NoRequest
    /\ yf_in = NoYf
    /\ finnhub = NotCalled
    /\ yfin = NotCalled
    /\ fmp_km = NotCalled
    /\ fmp_bs = NotCalled
    /\ result = NoResult

\* line 116: fetch_snapshot(ticker) is entered
Invoke ==
    /\ pc = "idle"
    /\ pc' = "finnhub"
    /\ focus' \in Focuses
    /\ UNCHANGED <<FINNHUB_KEY, FMP_KEY, http_finnhub, http_km, http_bs, yf_in,
                   finnhub, yfin, fmp_km, fmp_bs, result>>

\* line 117
CallFinnhub ==
    /\ pc = "finnhub"
    /\ \E http \in IF KeySet(FINNHUB_KEY) THEN FinnhubResponses(focus)
                   ELSE {NoRequest} :
          /\ http_finnhub' = http
          /\ finnhub' = finnhub_metric(FINNHUB_KEY, http)
    /\ pc' = "yfinance"
    /\ UNCHANGED <<FINNHUB_KEY, FMP_KEY, focus, http_km, http_bs, yf_in, yfin,
                   fmp_km, fmp_bs, result>>

\* line 118
CallYfinance ==
    /\ pc = "yfinance"
    /\ \E yf \in YfInputs(focus) :
          /\ yf_in' = yf
          /\ yfin' = yfinance_balance_dividend(yf)
    /\ pc' = "fmp_km"
    /\ UNCHANGED <<FINNHUB_KEY, FMP_KEY, focus, http_finnhub, http_km, http_bs,
                   finnhub, fmp_km, fmp_bs, result>>

\* line 119
CallFmpKeyMetrics ==
    /\ pc = "fmp_km"
    /\ \E http \in IF KeySet(FMP_KEY) THEN FmpResponses(focus, FmpKmKeys(focus))
                   ELSE {NoRequest} :
          /\ http_km' = http
          /\ fmp_km' = fmp_key_metrics(FMP_KEY, http)
    /\ pc' = "fmp_bs"
    /\ UNCHANGED <<FINNHUB_KEY, FMP_KEY, focus, http_finnhub, http_bs, yf_in,
                   finnhub, yfin, fmp_bs, result>>

\* line 120
CallFmpBalanceSheet ==
    /\ pc = "fmp_bs"
    /\ \E http \in IF KeySet(FMP_KEY) THEN FmpResponses(focus, FmpBsKeys(focus))
                   ELSE {NoRequest} :
          /\ http_bs' = http
          /\ fmp_bs' = fmp_balance_sheet(FMP_KEY, http)
    /\ pc' = "merge"
    /\ UNCHANGED <<FINNHUB_KEY, FMP_KEY, focus, http_finnhub, http_km, yf_in,
                   finnhub, yfin, fmp_km, result>>

\* lines 122-205 applied to the locals of lines 117-120
fetch_snapshot == merge(finnhub, yfin, fmp_km, fmp_bs)

\* lines 122-205: the merge; the call returns or raises
Merge ==
    /\ pc = "merge"
    /\ result' = fetch_snapshot
    /\ pc' = "done"
    /\ UNCHANGED <<FINNHUB_KEY, FMP_KEY, focus, http_finnhub, http_km, http_bs,
                   yf_in, finnhub, yfin, fmp_km, fmp_bs>>

\* the caller has the result; the frame of the call is gone and nothing of
\* the call is kept
Return ==
    /\ pc = "done"
    /\ pc' = "idle"
    /\ focus' = "none"
    /\ http_finnhub' = NoRequest
    /\ http_km' = NoRequest
    /\ http_bs' = NoRequest
    /\ yf_in' = NoYf
    /\ finnhub' = NotCalled
    /\ yfin' = NotCalled
    /\ fmp_km' = NotCalled
    /\ fmp_bs' = NotCalled
    /\ result' = NoResult
    /\ UNCHANGED <<FINNHUB_KEY, FMP_KEY>>

Next ==
    \/ Invoke
    \/ CallFinnhub
    \/ CallYfinance
    \/ CallFmpKeyMetrics
    \/ CallFmpBalanceSheet
    \/ Merge
    \/ Return

Spec == Init /\ [][Next]_vars

---------------------------------------------------------------------------
\* Properties.

\* fetch_snapshot has returned a snapshot
Returned == pc = "done" /\ result.exc = "none"

\* the adapter results are well typed: four dicts
WellTyped ==
    finnhub.type = "dict" /\ yfin.type = "dict" /\ fmp_km.type = "dict"
    /\ fmp_bs.type = "dict"

\* the fields with a fallback chain, and the raw value of the primary source
ChainFields == {"market_cap", "pe_ttm", "earnings_yoy", "revenue_yoy",
                "price_to_sales", "price_to_book", "fcf_yield", "profit_margin",
                "operating_margin_ttm", "cash", "debt", "dividend_yield",
                "payout_ratio", "ev_to_ebitda"}

PrimaryRaw(f) ==
    CASE f \in SimpleFocuses -> Get(finnhub, FinnhubKey(f))
      [] f = "pe_ttm" -> Get(finnhub, "peTTM")
      [] f = "earnings_yoy" -> Get(finnhub, "epsGrowthQuarterlyYoy")
      [] f = "price_to_book" -> Get(finnhub, "pbTTM")
      [] f = "cash" -> yfin.items["cash"]
      [] f = "debt" -> yfin.items["debt"]
      [] f = "ev_to_ebitda" -> Get(fmp_km, "enterpriseValueOverEBITDATTM")

\* the first of two values that is not null
FirstNonNull(a, b) == IF a # None THEN a ELSE b

\* C1: whenever the primary source's raw field of a field with a fallback
\* chain is present and non-null (0 included), the snapshot field is that
\* value, whatever the secondary sources hold.
C1_PrimaryVerbatim ==
    Returned =>
        \A f \in ChainFields :
            PrimaryRaw(f) # None => result.snap[f] = PrimaryRaw(f)

\* C2: whenever A.forwardPE or C.forwardPE is non-null (0 included), pe_fwd
\* is the supplied value, A's if non-null and else C's, never the estimate.
C2_SuppliedForwardPEKept ==
    Returned =>
        LET fa == Get(finnhub, "forwardPE")
            fc == Get(fmp_km, "forwardPE")
        IN  (fa # None \/ fc # None) =>
                result.snap["pe_fwd"] = FirstNonNull(fa, fc)

\* C3: when no provider supplies forwardPE and pe_ttm and earnings_yoy are
\* known, then for every earnings_yoy that is nonzero and above -100,
\* pe_fwd * (100 + earnings_yoy) = 100 * pe_ttm.
C3_ForwardPEDerived ==
    Returned =>
        LET ttm == result.snap["pe_ttm"]
            yoy == result.snap["earnings_yoy"]
            fwd == result.snap["pe_fwd"]
        IN  (/\ Get(finnhub, "forwardPE") = None
             /\ Get(fmp_km, "forwardPE") = None
             /\ ttm # None /\ yoy # None
             /\ yoy.num # 0 /\ yoy.num > -100 * yoy.den)
            => /\ IsNumber(fwd)
               /\ fwd.num * (100 * yoy.den + yoy.num) * ttm.den
                    = 100 * ttm.num * yoy.den * fwd.den

\* C4: net_cash is Adapter B's net_cash whenever that is non-null; otherwise
\* snapshot cash - snapshot debt whenever both are non-null; otherwise null.
C4_NetCash ==
    Returned =>
        LET b == yfin.items["net_cash"]
            ca == result.snap["cash"]
            de == result.snap["debt"]
        IN  result.snap["net_cash"] =
                IF b # None THEN b
                ELSE IF ca # None /\ de # None
                     THEN Sub(ca, de) ELSE None

\* Adapter B's net_cash is non-null and differs from cash - debt of the
\* snapshot, and is the snapshot's net_cash.
C4_Witness ==
    /\ Returned
    /\ yfin.items["net_cash"] # None
    /\ result.snap["cash"] # None /\ result.snap["debt"] # None
    /\ yfin.items["net_cash"].num
         # result.snap["cash"].num - result.snap["debt"].num

\* C5: with C.enterpriseValueOverEBITDATTM absent, ev_to_ebitda is
\* (A.enterpriseValue or C.enterpriseValueTTM) / (A.ebitdaTTM or C.ebitdaTTM)
\* if both operands are present and the divisor is nonzero, and null in every
\* other case.
C5_EvToEbitdaGuarded ==
    (Returned /\ "enterpriseValueOverEBITDATTM" \notin DOMAIN fmp_km.items) =>
        LET ev == FirstNonNull(Get(finnhub, "enterpriseValue"),
                               Get(fmp_km, "enterpriseValueTTM"))
            eb == FirstNonNull(Get(finnhub, "ebitdaTTM"),
                               Get(fmp_km, "ebitdaTTM"))
        IN  result.snap["ev_to_ebitda"] =
                IF ev # None /\ eb # None /\ eb.num # 0
                THEN Float(ev.num * eb.den, ev.den * eb.num) ELSE None

\* the adapters returned no data
AllEmpty ==
    /\ finnhub = EmptyDict
    /\ fmp_km = EmptyDict
    /\ fmp_bs = EmptyDict
    /\ yfin = YfRes(None, None, None, None, None)

\* C6: when all providers return no data, fetch_snapshot returns a snapshot
\* in which every field is null.
C6_AllNull ==
    (pc = "done" /\ AllEmpty) =>
        result.exc = "none" /\ \A f \in Fields : result.snap[f] = None

\* fetch_snapshot is done on providers without data
C6_Witness == pc = "done" /\ AllEmpty /\ result # NoResult

\* C7: on well-typed adapter results the merge never raises.
C7_MergeNeverRaises == (pc = "done" /\ WellTyped) => result.exc = "none"

\* the merge has run where the estimate's divisor would be zero
\* (earnings_yoy = -100) and where the EBITDA divisor is zero
C7_Witness ==
    /\ Returned
    /\ \/ /\ result.snap["earnings_yoy"] = Int_(-100)
          /\ result.snap["pe_ttm"] # None
          /\ Get(finnhub, "forwardPE") = None
          /\ Get(fmp_km, "forwardPE") = None
       \/ /\ Get(fmp_km, "enterpriseValueOverEBITDATTM") = None
          /\ enterprise_value(finnhub, fmp_km) = Int_(100)
          /\ ebitda(finnhub, fmp_km) = Int_(0)

\* C8 (equal adapter results give an equal snapshot, on every call and for
\* every completion order) compares two runs of fetch_snapshot. Merge sets
\* result to merge(finnhub, yfin, fmp_km, fmp_bs), a function of the four
\* locals, after the sequential calls of lines 117-120, so a formula over
\* this state machine would hold by the definition of Merge alone; no
\* formula is stated for it.

\* the HTTP call behind an adapter result did not deliver a mapping
NoMapping(key, http, expect) ==
    \/ ~KeySet(key)
    \/ http.error # "none"
    \/ StatusRaises(http.status)
    \/ http.body.shape # expect
    \/ IF expect = "dict"
       THEN \/ "metric" \notin DOMAIN http.body.members
            \/ http.body.members["metric"].type # "dict"
       ELSE \/ Len(http.body.members) = 0
            \/ http.body.members[1].type # "dict"

\* C9: each key-based adapter returns a mapping for every outcome of its
\* HTTP call, the empty mapping when the call did not deliver one, and
\* fetch_snapshot never fails on a field lookup.
C9_AdaptersReturnMappings ==
    /\ finnhub # NotCalled =>
          /\ finnhub.type = "dict"
          /\ NoMapping(FINNHUB_KEY, http_finnhub, "dict") => finnhub = EmptyDict
    /\ fmp_km # NotCalled =>
          /\ fmp_km.type = "dict"
          /\ NoMapping(FMP_KEY, http_km, "list") => fmp_km = EmptyDict
    /\ fmp_bs # NotCalled =>
          /\ fmp_bs.type = "dict"
          /\ NoMapping(FMP_KEY, http_bs, "list") => fmp_bs = EmptyDict
    /\ pc = "done" => result.exc # "raise:AttributeError"

\* an exception is raised inside the try block of Adapter B
YfRaises(yf) ==
    \/ yf.bs_exc
    \/ yf.div_exc
    \/ DOMAIN yf.bs # {} /\ IsRaise(first_label(CashLabels, yf.bs))
    \/ DOMAIN yf.bs # {} /\ IsRaise(first_label(DebtLabels, yf.bs))

\* C10: if a step of Adapter B fails, the mapping it returns has all five
\* fields null. Stated for the failures that are exceptions.
C10_FailureAllNull ==
    (yfin # NotCalled /\ YfRaises(yf_in)) =>
        yfin = YfRes(None, None, None, None, None)

=============================================================================
